---- MODULE Spec2Model ----
(***************************************************************************)
(* MediAI hospital system: the triage classifier (PrologExpertSystem),     *)
(* the appointment and bed allocator (CSPScheduler) and the roster planner *)
(* (GeneticAlgorithmRoster) of src/hopital_management.py, modelled as a    *)
(* state machine.                                                          *)
(***************************************************************************)
EXTENDS Integers, Sequences, FiniteSets, TLC

VARIABLES
    symptoms,          \* argument of the diagnose call: a list of strings
    age,               \* argument of the diagnose call
    diagnosis_result,  \* what the last diagnose call returned, or None
    BEDS,              \* CSPScheduler.BEDS, the shared bed pool
    bed_allocation,    \* what the last allocate_bed call returned, or None
    appointment,       \* what the last schedule_appointment call returned, or None
    diag_log,          \* history: the call number, arguments and result of every diagnose call
    bed_log,           \* history: the bed id returned by each allocate_bed call
    calls,             \* number of calls made so far
    req,               \* concurrent allocate_bed requests: position and locals
    roster_data,       \* the roster of the last generate_optimized_roster call, or None
    metrics,           \* the fitness metrics of that roster, or None
    current_time,      \* what datetime.now() gave the schedule_appointment call, or None
    gender,            \* argument of the allocate_bed call, or None
    db,                \* the tables of the record store (HospitalDatabase), or None
    entries            \* the last run_diagnosis: its name and age entries, its call
                       \* number and what its save_weekly_roster returned; or None

vars == <<symptoms, age, diagnosis_result, BEDS, bed_allocation, appointment,
          diag_log, bed_log, calls, req, roster_data, metrics, current_time, gender,
          db, entries>>

None == [none |-> TRUE]

----------------------------------------------------------------------------
(* Bounds of the model *)

MaxSymptoms == 3    \* longest symptom list handed to diagnose
MaxCalls == 3       \* longest sequence of calls of the sequential system
MaxRequests == 3    \* most allocate_bed requests of the concurrent system
MaxDeviations == 1  \* most roster cells whose patient count differs from the others
MaxTriage == 9      \* most triage runs of the ward

----------------------------------------------------------------------------
(* Strings.  A Python str is modelled by its case-folded text and the way  *)
(* its letters are cased; str.lower() keeps the text and resets the casing.*)

Forms == {"lower", "Title"}

Str(name, form) == [name |-> name, form |-> form]

\* a string literal of the source, which is written in lower case
Lit(name) == Str(name, "lower")

lower_identity(s) == s

lower(s) == [s EXCEPT !.form = "lower"]

----------------------------------------------------------------------------
(* PrologExpertSystem.diagnose *)

\* symptom_set = [s.lower() for s in symptoms]
symptom_set_of(syms) == [i \in 1..Len(syms) |-> lower(syms[i])]

\* any(s in symptom_set for s in triggers)
any_in(symptom_set, triggers) ==
    \E s \in triggers : \E i \in 1..Len(symptom_set) : symptom_set[i] = Lit(s)

\* 'fever' in symptom_set
has(symptom_set, s) == \E i \in 1..Len(symptom_set) : symptom_set[i] = Lit(s)

CardiacTriggers == {"chest pain", "heart palpitations", "heart attack"}
NeuroTriggers == {"severe headache", "dizziness", "confusion", "seizure"}
PediatricTriggers == {"child", "infant", "baby"}
RespiratoryTriggers == {"difficulty breathing", "shortness of breath", "wheezing"}
GastroTriggers == {"abdominal pain", "blood in stool", "vomiting"}
OrthoTriggers == {"joint pain", "back pain", "limited mobility", "stiffness"}
DermaTriggers == {"rash", "skin lesions", "hives", "skin discoloration"}
PsychTriggers == {"depression", "anxiety", "insomnia"}

Outcome(u, p, sp, di, doc, col) ==
    [urgency |-> u, priority |-> p, specialty |-> sp, disease |-> di,
     doctor |-> doc, color |-> col]

CardiacOutcome_low ==
    Outcome("Emergency", 9, "Cardiology", "Possible Cardiac Event",
            "Dr. Sarah Johnson", "#ef4444")

CardiacOutcome ==
    Outcome("Emergency", 10, "Cardiology", "Possible Cardiac Event",
            "Dr. Sarah Johnson", "#ef4444")

NeuroOutcome ==
    Outcome("High", 8, "Neurology", "Neurological Concern",
            "Dr. Michael Chen", "#f97316")

PediatricOutcome ==
    Outcome("Medium", 6, "Pediatrics", "Pediatric Consultation",
            "Dr. Robert Lee", "#3b82f6")

FeverCoughOutcome_low ==
    Outcome("Low", 3, "General Medicine", "Respiratory Infection",
            "Dr. Emily Davis", "#eab308")

FeverCoughOutcome ==
    Outcome("Medium", 5, "General Medicine", "Respiratory Infection",
            "Dr. Emily Davis", "#eab308")

RespiratoryOutcome ==
    Outcome("Emergency", 9, "Respiratory Medicine", "Acute Respiratory Distress",
            "Dr. Sarah Johnson", "#ef4444")

GastroOutcome ==
    Outcome("High", 7, "Gastroenterology", "Gastrointestinal Disorder",
            "Dr. Michael Chen", "#f97316")

OrthoOutcome ==
    Outcome("Medium", 5, "Orthopedics", "Musculoskeletal Issue",
            "Dr. Anna Martinez", "#8b5cf6")

DermaOutcome_high ==
    Outcome("Low", 5, "Dermatology", "Dermatological Condition",
            "Dr. Emily Davis", "#06b6d4")

DermaOutcome ==
    Outcome("Low", 4, "Dermatology", "Dermatological Condition",
            "Dr. Emily Davis", "#06b6d4")

PsychOutcome_low ==
    Outcome("Medium", 4, "Psychiatry", "Mental Health Consultation",
            "Dr. Robert Lee", "#6366f1")

PsychOutcome ==
    Outcome("Medium", 5, "Psychiatry", "Mental Health Consultation",
            "Dr. Robert Lee", "#6366f1")

DefaultOutcome_medium ==
    Outcome("Medium", 3, "General Medicine", "General Checkup",
            "Dr. Emily Davis", "#22c55e")

DefaultOutcome ==
    Outcome("Low", 3, "General Medicine", "General Checkup",
            "Dr. Emily Davis", "#22c55e")

\* age < 18 or any(s in symptom_set for s in ['child', 'infant', 'baby'])
PediatricRule_symptoms_only(symptom_set, a) == any_in(symptom_set, PediatricTriggers)

PediatricRule(symptom_set, a) == a < 18 \/ any_in(symptom_set, PediatricTriggers)

diagnose(syms, a) ==
    LET symptom_set == symptom_set_of(syms) IN
    IF any_in(symptom_set, CardiacTriggers) THEN CardiacOutcome
    ELSE IF any_in(symptom_set, NeuroTriggers) THEN NeuroOutcome
    ELSE IF PediatricRule(symptom_set, a) THEN PediatricOutcome
    ELSE IF has(symptom_set, "fever") /\ has(symptom_set, "cough") THEN FeverCoughOutcome
    ELSE IF any_in(symptom_set, RespiratoryTriggers) THEN RespiratoryOutcome
    ELSE IF any_in(symptom_set, GastroTriggers) THEN GastroOutcome
    ELSE IF any_in(symptom_set, OrthoTriggers) THEN OrthoOutcome
    ELSE IF any_in(symptom_set, DermaTriggers) THEN DermaOutcome
    ELSE IF any_in(symptom_set, PsychTriggers) THEN PsychOutcome
    ELSE DefaultOutcome

----------------------------------------------------------------------------
(* Inputs of the classifier *)

\* symptom names handed to diagnose: one trigger of every rule, the
\* fever/cough pair and a name no rule mentions
Names == {"chest pain", "severe headache", "child", "fever", "cough",
          "wheezing", "vomiting", "joint pain", "rash", "anxiety", "fatigue"}

\* the names as the symptom selector spells them (capitalised)
TitledNames == {"chest pain", "wheezing", "fever", "cough"}

Strings == {Lit(n) : n \in Names} \cup {Str(n, "Title") : n \in TitledNames}

SymptomLists == UNION {[1..n -> Strings] : n \in 1..MaxSymptoms}

Ages == {0, 17, 18, 40}

----------------------------------------------------------------------------
(* CSPScheduler.BEDS *)

InitBEDS ==
    [Emergency |->
        << [id |-> "ICU-1", ward |-> "ICU", type |-> "Critical", available |-> TRUE],
           [id |-> "ICU-2", ward |-> "ICU", type |-> "Critical", available |-> TRUE],
           [id |-> "ICU-3", ward |-> "ICU", type |-> "Critical", available |-> FALSE] >>,
     High |->
        << [id |-> "GW-201", ward |-> "General Ward A", type |-> "Standard",
            gender |-> "male", available |-> TRUE],
           [id |-> "GW-202", ward |-> "General Ward A", type |-> "Standard",
            gender |-> "female", available |-> TRUE],
           [id |-> "ISO-101", ward |-> "Isolation", type |-> "Isolation",
            available |-> TRUE] >>,
     Pediatric |->
        << [id |-> "PED-1", ward |-> "Pediatric Ward", type |-> "Child", available |-> TRUE],
           [id |-> "PED-2", ward |-> "Pediatric Ward", type |-> "Child", available |-> TRUE] >>]

Categories == {"Emergency", "High", "Pediatric"}

----------------------------------------------------------------------------
(* Time.  A datetime is a calendar day (numbered) and a time of day; adding *)
(* a timedelta of whole minutes carries into the hour and the day and      *)
(* leaves the seconds and microseconds alone.                              *)

DateTime(d, h, m, s, us) ==
    [day |-> d, hour |-> h, minute |-> m, second |-> s, microsecond |-> us]

\* an addition that rounds the result down to the whole minute
plus_minutes_truncating(dt, mins) ==
    LET total == (dt.day * 24 + dt.hour) * 60 + dt.minute + mins IN
    [day |-> total \div 1440, hour |-> (total % 1440) \div 60, minute |-> total % 60,
     second |-> 0, microsecond |-> 0]

\* current_time + timedelta(minutes=mins)
plus_minutes(dt, mins) ==
    LET total == (dt.day * 24 + dt.hour) * 60 + dt.minute + mins IN
    [day |-> total \div 1440, hour |-> (total % 1440) \div 60, minute |-> total % 60,
     second |-> dt.second, microsecond |-> dt.microsecond]

\* the values datetime.now() takes
NowSet == {DateTime(1, 10, 30, 25, 500000), DateTime(1, 23, 50, 0, 0)}

----------------------------------------------------------------------------
(* CSPScheduler.schedule_appointment *)

ROOMS ==
    [Cardiology |-> "CCU-201", Neurology |-> "Neuro-305", Pediatrics |-> "Pediatric-102",
     General_Medicine |-> "OPD-15", Orthopedics |-> "Ortho-204"]

\* cls.ROOMS[specialty]: a lookup with no default, which fails on a missing key
room_of_strict(specialty) ==
    CASE specialty = "Cardiology" -> ROOMS.Cardiology
      [] specialty = "Neurology" -> ROOMS.Neurology
      [] specialty = "Pediatrics" -> ROOMS.Pediatrics
      [] specialty = "General Medicine" -> ROOMS.General_Medicine
      [] specialty = "Orthopedics" -> ROOMS.Orthopedics
      [] OTHER -> "KeyError"

\* cls.ROOMS.get(specialty, 'OPD-10')
room_of(specialty) ==
    CASE specialty = "Cardiology" -> ROOMS.Cardiology
      [] specialty = "Neurology" -> ROOMS.Neurology
      [] specialty = "Pediatrics" -> ROOMS.Pediatrics
      [] specialty = "General Medicine" -> ROOMS.General_Medicine
      [] specialty = "Orthopedics" -> ROOMS.Orthopedics
      [] OTHER -> "OPD-10"

\* a scheduler whose Low slot is 09:00 of the day of now
schedule_appointment_same_day(diagnosis, patient_name, now) ==
    LET slot ==
            IF diagnosis.urgency = "Emergency"
            THEN [time |-> plus_minutes(now, 15), duration |-> 60]
            ELSE IF diagnosis.urgency = "High"
            THEN [time |-> plus_minutes(now, 60), duration |-> 45]
            ELSE IF diagnosis.urgency = "Medium"
            THEN [time |-> plus_minutes(now, 180), duration |-> 30]
            ELSE [time |-> [now EXCEPT !.hour = 9, !.minute = 0], duration |-> 30]
    IN [patient |-> patient_name,
        doctor |-> diagnosis.doctor,
        specialty |-> diagnosis.specialty,
        time |-> slot.time,
        room |-> room_of(diagnosis.specialty),
        duration |-> slot.duration,
        urgency |-> diagnosis.urgency]

\* now is the value of current_time = datetime.now()
schedule_appointment(diagnosis, patient_name, now) ==
    LET slot ==
            IF diagnosis.urgency = "Emergency"
            THEN [time |-> plus_minutes(now, 15), duration |-> 60]
            ELSE IF diagnosis.urgency = "High"
            THEN [time |-> plus_minutes(now, 60), duration |-> 45]
            ELSE IF diagnosis.urgency = "Medium"
            THEN [time |-> plus_minutes(now, 180), duration |-> 30]
            ELSE [time |-> [plus_minutes(now, 1440) EXCEPT !.hour = 9, !.minute = 0],
                  duration |-> 30]
    IN [patient |-> patient_name,
        doctor |-> diagnosis.doctor,
        specialty |-> diagnosis.specialty,
        time |-> slot.time,
        room |-> room_of(diagnosis.specialty),
        duration |-> slot.duration,
        urgency |-> diagnosis.urgency]

----------------------------------------------------------------------------
(* CSPScheduler.allocate_bed *)

\* next((b for b in beds if ...), None): the first bed whose index is in ok
next_or_none(beds, ok) ==
    IF ok # {}
    THEN beds[CHOOSE i \in ok : \A j \in ok : i <= j]
    ELSE None

WaitList == [id |-> "WAIT-LIST", ward |-> "Waiting Queue", type |-> "Queue"]

\* the category of the pool the patient's bed is taken from
category_of(diagnosis, a) ==
    IF diagnosis.urgency = "Emergency" THEN "Emergency"
    ELSE IF diagnosis.specialty = "Pediatrics" \/ a < 18 THEN "Pediatric"
    ELSE "High"

\* a selection that tests the pediatric rule before the emergency rule
select_bed_child_first(pool, diagnosis, a, g) ==
    LET is_available(beds) == {i \in 1..Len(beds) : beds[i].available}
        fits(beds) == {i \in 1..Len(beds) :
                          /\ beds[i].available
                          /\ ("gender" \notin DOMAIN beds[i] \/ beds[i].gender = g)}
        allocated_bed ==
            IF diagnosis.specialty = "Pediatrics" \/ a < 18
            THEN next_or_none(pool.Pediatric, is_available(pool.Pediatric))
            ELSE IF diagnosis.urgency = "Emergency"
            THEN next_or_none(pool.Emergency, is_available(pool.Emergency))
            ELSE next_or_none(pool.High, fits(pool.High))
    IN IF allocated_bed = None THEN WaitList ELSE allocated_bed

\* a selection that ignores the gender of the general-ward beds
select_bed_any_gender(pool, diagnosis, a, g) ==
    LET is_available(beds) == {i \in 1..Len(beds) : beds[i].available}
        allocated_bed ==
            IF diagnosis.urgency = "Emergency"
            THEN next_or_none(pool.Emergency, is_available(pool.Emergency))
            ELSE IF diagnosis.specialty = "Pediatrics" \/ a < 18
            THEN next_or_none(pool.Pediatric, is_available(pool.Pediatric))
            ELSE next_or_none(pool.High, is_available(pool.High))
    IN IF allocated_bed = None THEN WaitList ELSE allocated_bed

\* a selection that falls through to the general ward when the patient's
\* own category has no bed
select_bed_fallthrough(pool, diagnosis, a, g) ==
    LET is_available(beds) == {i \in 1..Len(beds) : beds[i].available}
        fits(beds) == {i \in 1..Len(beds) :
                          /\ beds[i].available
                          /\ ("gender" \notin DOMAIN beds[i] \/ beds[i].gender = g)}
        own ==
            IF diagnosis.urgency = "Emergency"
            THEN next_or_none(pool.Emergency, is_available(pool.Emergency))
            ELSE IF diagnosis.specialty = "Pediatrics" \/ a < 18
            THEN next_or_none(pool.Pediatric, is_available(pool.Pediatric))
            ELSE next_or_none(pool.High, fits(pool.High))
        allocated_bed ==
            IF own = None THEN next_or_none(pool.High, fits(pool.High)) ELSE own
    IN IF allocated_bed = None THEN WaitList ELSE allocated_bed

\* lines 272-291: the bed chosen from the pool, or the waitlist placeholder
select_bed(pool, diagnosis, a, g) ==
    LET is_available(beds) == {i \in 1..Len(beds) : beds[i].available}
        fits(beds) == {i \in 1..Len(beds) :
                          /\ beds[i].available
                          /\ ("gender" \notin DOMAIN beds[i] \/ beds[i].gender = g)}
        allocated_bed ==
            IF diagnosis.urgency = "Emergency"
            THEN next_or_none(pool.Emergency, is_available(pool.Emergency))
            ELSE IF diagnosis.specialty = "Pediatrics" \/ a < 18
            THEN next_or_none(pool.Pediatric, is_available(pool.Pediatric))
            ELSE next_or_none(pool.High, fits(pool.High))
    IN IF allocated_bed = None THEN WaitList ELSE allocated_bed

\* lines 293-300: the value returned
bed_result(allocated_bed, diagnosis, patient_name, now) ==
    [patient |-> patient_name,
     bed |-> allocated_bed,
     assigned_at |-> now,
     estimated_stay |-> IF diagnosis.urgency = "Emergency" THEN "3-5 days" ELSE "1-2 days"]

allocate_bed(pool, diagnosis, patient_name, a, g, now) ==
    bed_result(select_bed(pool, diagnosis, a, g), diagnosis, patient_name, now)

Genders == {"male", "female", "other"}

Patients == {"Ali"}

----------------------------------------------------------------------------
(* GeneticAlgorithmRoster *)

DOCTORS ==
    << [name |-> "Dr. Sarah Johnson", specialty |-> "Cardiology", cost_per_hour |-> 150],
       [name |-> "Dr. Michael Chen", specialty |-> "Neurology", cost_per_hour |-> 140],
       [name |-> "Dr. Emily Davis", specialty |-> "General Medicine", cost_per_hour |-> 100],
       [name |-> "Dr. Robert Lee", specialty |-> "Pediatrics", cost_per_hour |-> 120],
       [name |-> "Dr. Anna Martinez", specialty |-> "Orthopedics", cost_per_hour |-> 130],
       [name |-> "Dr. James Wilson", specialty |-> "Respiratory Medicine", cost_per_hour |-> 145],
       [name |-> "Dr. Linda Sophia", specialty |-> "Gastroenterology", cost_per_hour |-> 135],
       [name |-> "Dr. Kevin Park", specialty |-> "Dermatology", cost_per_hour |-> 110],
       [name |-> "Dr. Rachel Adams", specialty |-> "Psychiatry", cost_per_hour |-> 125],
       [name |-> "Dr. Steven Wright", specialty |-> "Other", cost_per_hour |-> 95] >>

SHIFTS == <<"Morning (8AM-2PM)", "Afternoon (2PM-8PM)", "Night (8PM-2AM)">>

DAYS == <<"Monday", "Tuesday", "Wednesday", "Thursday", "Friday", "Saturday", "Sunday">>

\* Amounts of money are counted in halves of the currency unit, the
\* precision of patients * cost_per_hour / 2.
Halves(amount) == 2 * amount

\* a cell whose doctor index leaves out the factor 3 of the day
roster_cell_by_day(day_idx, shift_idx, patients) ==
    LET doctor_idx == (day_idx + shift_idx) % Len(DOCTORS)
        doctor == DOCTORS[doctor_idx + 1]
    IN [day |-> DAYS[day_idx + 1],
        shift |-> SHIFTS[shift_idx + 1],
        doctor |-> doctor.name,
        specialty |-> doctor.specialty,
        patients |-> patients,
        cost |-> patients * doctor.cost_per_hour,
        revenue |-> Halves(patients * 80)]

\* a cell whose doctor index wraps at the number of days
roster_cell_mod_days(day_idx, shift_idx, patients) ==
    LET doctor_idx == (day_idx * 3 + shift_idx) % Len(DAYS)
        doctor == DOCTORS[doctor_idx + 1]
    IN [day |-> DAYS[day_idx + 1],
        shift |-> SHIFTS[shift_idx + 1],
        doctor |-> doctor.name,
        specialty |-> doctor.specialty,
        patients |-> patients,
        cost |-> patients * doctor.cost_per_hour,
        revenue |-> Halves(patients * 80)]

\* a cell whose cost is charged at the rate of the first doctor of the catalog
roster_cell_first_rate(day_idx, shift_idx, patients) ==
    LET doctor_idx == (day_idx * 3 + shift_idx) % Len(DOCTORS)
        doctor == DOCTORS[doctor_idx + 1]
    IN [day |-> DAYS[day_idx + 1],
        shift |-> SHIFTS[shift_idx + 1],
        doctor |-> doctor.name,
        specialty |-> doctor.specialty,
        patients |-> patients,
        cost |-> patients * DOCTORS[1].cost_per_hour,
        revenue |-> Halves(patients * 80)]

\* the cell of day_idx and shift_idx (both from 0) when random.randint(5, 7)
\* gives patients
roster_cell(day_idx, shift_idx, patients) ==
    LET doctor_idx == (day_idx * 3 + shift_idx) % Len(DOCTORS)
        doctor == DOCTORS[doctor_idx + 1]
    IN [day |-> DAYS[day_idx + 1],
        shift |-> SHIFTS[shift_idx + 1],
        doctor |-> doctor.name,
        specialty |-> doctor.specialty,
        patients |-> patients,
        cost |-> patients * doctor.cost_per_hour,
        revenue |-> Halves(patients * 80)]

RECURSIVE sum(_, _)
\* sum(s[field] for s in flat_roster)
sum(flat_roster, field) ==
    IF flat_roster = << >> THEN 0
    ELSE Head(flat_roster)[field] + sum(Tail(flat_roster), field)

\* a rendering that drops the fraction
format_2f_whole(halves) == [units |-> halves \div 2, hundredths |-> 0]

\* f"{x:.2f}" of an amount in halves: the units and the hundredths printed
format_2f(halves) == [units |-> halves \div 2, hundredths |-> (halves % 2) * 50]

\* f"{total / count:.1f}": the quotient rounded to the nearest tenth
format_1f(total, count) ==
    LET tenths == (20 * total + count) \div (2 * count)
    IN [units |-> tenths \div 10, tenths |-> tenths % 10]

\* the roster and its metrics when the successive random.randint(5, 7)
\* calls give draws[1], draws[2], ...
generate_optimized_roster(draws) ==
    LET cell(d, s) == roster_cell(d - 1, s - 1, draws[(d - 1) * Len(SHIFTS) + s])
        roster == [d \in 1..Len(DAYS) |-> [s \in 1..Len(SHIFTS) |-> cell(d, s)]]
        \* flat_roster = [shift for day in roster for shift in day]
        flat_roster == [k \in 1..(Len(DAYS) * Len(SHIFTS)) |->
                           cell(((k - 1) \div Len(SHIFTS)) + 1, ((k - 1) % Len(SHIFTS)) + 1)]
        total_cost == sum(flat_roster, "cost")
        total_revenue == sum(flat_roster, "revenue")
        profit == total_revenue - total_cost
    IN [roster |-> roster,
        metrics |-> [total_cost |-> format_2f(total_cost),
                     total_revenue |-> format_2f(total_revenue),
                     profit |-> format_2f(profit),
                     avg_patients |-> format_1f(sum(flat_roster, "patients"),
                                                Len(flat_roster))]]

\* the sequences of patient counts the 21 random draws give in the system
DrawPatterns ==
    {[k \in 1..21 |-> 5 + ((base + k * step) % 3)] : base \in 0..2, step \in 0..1}

----------------------------------------------------------------------------
(* The classifier applied to one input *)

InitDiag ==
    /\ symptoms \in SymptomLists
    /\ age \in Ages
    /\ diagnosis_result = None
    /\ BEDS = InitBEDS
    /\ bed_allocation = None
    /\ appointment = None
    /\ diag_log = << >>
    /\ bed_log = << >>
    /\ calls = 0
    /\ req = << >>
    /\ roster_data = None
    /\ metrics = None
    /\ current_time = None
    /\ gender = None
    /\ db = None
    /\ entries = None

\* self.diagnosis_result = PrologExpertSystem.diagnose(self.symptoms, age)
Diagnose ==
    /\ diagnosis_result = None
    /\ diagnosis_result' = diagnose(symptoms, age)
    /\ UNCHANGED <<symptoms, age, BEDS, bed_allocation, appointment,
                   diag_log, bed_log, calls, req, roster_data, metrics, current_time, gender,
                   db, entries>>

NextDiag == Diagnose

SpecDiag == InitDiag /\ [][NextDiag]_vars

----------------------------------------------------------------------------
(* The system: calls of diagnose, schedule_appointment, allocate_bed and    *)
(* generate_optimized_roster, one at a time and in any order, as the       *)
(* triage pipeline of run_diagnosis and any other caller of the entry      *)
(* points makes them.                                                      *)

\* the symptom selections handed to diagnose, spelled as the selector does
SysSymptomLists ==
    { <<Str("chest pain", "Title")>>, <<Str("severe headache", "Title")>>,
      <<Str("fever", "Title"), Str("cough", "Title")>>, <<Str("wheezing", "Title")>>,
      <<Str("vomiting", "Title")>>, <<Str("joint pain", "Title")>>,
      <<Str("rash", "Title")>>, <<Str("anxiety", "Title")>>, <<Str("fatigue", "Title")>> }

SysAges == {17, 40}

Init ==
    /\ symptoms = << >>
    /\ age = 0
    /\ diagnosis_result = None
    /\ BEDS = InitBEDS
    /\ bed_allocation = None
    /\ appointment = None
    /\ diag_log = << >>
    /\ bed_log = << >>
    /\ calls = 0
    /\ req = << >>
    /\ roster_data = None
    /\ metrics = None
    /\ current_time = None
    /\ gender = None
    /\ db = None
    /\ entries = None

\* a call that classifies the symptoms kept from the call before it
DiagnoseCall_stale(syms, a) ==
    /\ calls < MaxCalls
    /\ symptoms' = syms
    /\ age' = a
    /\ diagnosis_result' = diagnose(symptoms, a)
    /\ diag_log' = Append(diag_log, [call |-> calls + 1, symptoms |-> syms, age |-> a,
                                     result |-> diagnosis_result'])
    /\ calls' = calls + 1
    /\ UNCHANGED <<BEDS, bed_allocation, appointment, bed_log, req, roster_data, metrics,
                   current_time, gender, db, entries>>

\* self.diagnosis_result = PrologExpertSystem.diagnose(self.symptoms, age)
DiagnoseCall(syms, a) ==
    /\ calls < MaxCalls
    /\ symptoms' = syms
    /\ age' = a
    /\ diagnosis_result' = diagnose(syms, a)
    /\ diag_log' = Append(diag_log, [call |-> calls + 1, symptoms |-> syms, age |-> a,
                                     result |-> diagnosis_result'])
    /\ calls' = calls + 1
    /\ UNCHANGED <<BEDS, bed_allocation, appointment, bed_log, req, roster_data, metrics,
                   current_time, gender, db, entries>>

\* a scheduling call that also takes the first critical bed out of the pool
ScheduleAppointment_booking(patient_name, now) ==
    /\ calls < MaxCalls
    /\ diagnosis_result # None
    /\ current_time' = now
    /\ appointment' = schedule_appointment(diagnosis_result, patient_name, now)
    /\ BEDS' = [BEDS EXCEPT !.Emergency[1].available = FALSE]
    /\ calls' = calls + 1
    /\ UNCHANGED <<symptoms, age, diagnosis_result, bed_allocation,
                   diag_log, bed_log, req, roster_data, metrics, gender, db, entries>>

\* self.appointment = CSPScheduler.schedule_appointment(self.diagnosis_result, patient_name)
ScheduleAppointment(patient_name, now) ==
    /\ calls < MaxCalls
    /\ diagnosis_result # None
    /\ current_time' = now
    /\ appointment' = schedule_appointment(diagnosis_result, patient_name, now)
    /\ calls' = calls + 1
    /\ UNCHANGED <<symptoms, age, diagnosis_result, BEDS, bed_allocation,
                   diag_log, bed_log, req, roster_data, metrics, gender, db, entries>>

\* self.bed_allocation = CSPScheduler.allocate_bed(self.diagnosis_result, patient_name, age, gender)
AllocateBed(patient_name, g, now) ==
    /\ calls < MaxCalls
    /\ diagnosis_result # None
    /\ gender' = g
    /\ bed_allocation' = allocate_bed(BEDS, diagnosis_result, patient_name, age, g, now)
    /\ bed_log' = Append(bed_log, bed_allocation'.bed.id)
    /\ calls' = calls + 1
    /\ UNCHANGED <<symptoms, age, diagnosis_result, BEDS, appointment, diag_log, req,
                   roster_data, metrics, current_time, db, entries>>

\* self.roster_data, self.metrics = GeneticAlgorithmRoster.generate_optimized_roster()
GenerateRoster(draws) ==
    /\ calls < MaxCalls
    /\ roster_data' = generate_optimized_roster(draws).roster
    /\ metrics' = generate_optimized_roster(draws).metrics
    /\ calls' = calls + 1
    /\ UNCHANGED <<symptoms, age, diagnosis_result, BEDS, bed_allocation, appointment,
                   diag_log, bed_log, req, current_time, gender, db, entries>>

Next ==
    \/ \E syms \in SysSymptomLists, a \in SysAges : DiagnoseCall(syms, a)
    \/ \E p \in Patients, now \in NowSet : ScheduleAppointment(p, now)
    \/ \E p \in Patients, g \in Genders, now \in NowSet : AllocateBed(p, g, now)
    \/ \E draws \in DrawPatterns : GenerateRoster(draws)

Spec == Init /\ [][Next]_vars

----------------------------------------------------------------------------
(* Concurrent allocate_bed requests: each request first chooses its bed    *)
(* from the pool (lines 272-291) and then returns it (lines 293-300); the  *)
(* steps of the requests interleave in any order.                          *)

Threads == {1, 2}

ConcInputs ==
    { [symptoms |-> <<Str("chest pain", "Title")>>, age |-> 40],
      [symptoms |-> <<Str("wheezing", "Title")>>, age |-> 40],
      [symptoms |-> <<Str("fatigue", "Title")>>, age |-> 17],
      [symptoms |-> <<Str("joint pain", "Title")>>, age |-> 40] }

ConcGenders == {"male", "other"}

Idle == [pc |-> "idle"]

InitConc ==
    /\ symptoms = << >>
    /\ age = 0
    /\ diagnosis_result = None
    /\ BEDS = InitBEDS
    /\ bed_allocation = None
    /\ appointment = None
    /\ diag_log = << >>
    /\ bed_log = << >>
    /\ calls = 0
    /\ req = [t \in Threads |-> Idle]
    /\ roster_data = None
    /\ metrics = None
    /\ current_time = None
    /\ gender = None
    /\ db = None
    /\ entries = None

\* lines 272-291 of the request of thread t
AllocSelect(t, in, patient_name, g) ==
    /\ req[t].pc = "idle"
    /\ calls < MaxRequests
    /\ LET diagnosis == diagnose(in.symptoms, in.age) IN
       req' = [req EXCEPT ![t] =
                  [pc |-> "selected", diagnosis |-> diagnosis, patient |-> patient_name,
                   category |-> category_of(diagnosis, in.age),
                   allocated_bed |-> select_bed(BEDS, diagnosis, in.age, g)]]
    /\ calls' = calls + 1
    /\ UNCHANGED <<symptoms, age, diagnosis_result, BEDS, bed_allocation, appointment,
                   diag_log, bed_log, roster_data, metrics, current_time, gender, db, entries>>

\* lines 293-300 of the request of thread t
AllocReturn(t, now) ==
    /\ req[t].pc = "selected"
    /\ bed_allocation' = bed_result(req[t].allocated_bed, req[t].diagnosis,
                                    req[t].patient, now)
    /\ bed_log' = Append(bed_log, req[t].allocated_bed.id)
    /\ req' = [req EXCEPT ![t] = Idle]
    /\ UNCHANGED <<symptoms, age, diagnosis_result, BEDS, appointment, diag_log, calls,
                   roster_data, metrics, current_time, gender, db, entries>>

NextConc ==
    \/ \E t \in Threads, in \in ConcInputs, p \in Patients, g \in ConcGenders :
           AllocSelect(t, in, p, g)
    \/ \E t \in Threads, now \in NowSet : AllocReturn(t, now)

SpecConc == InitConc /\ [][NextConc]_vars

----------------------------------------------------------------------------
(* The appointment of one triage: diagnose applied to one input, then      *)
(* schedule_appointment applied to its result at one reading of the clock. *)

\* every rule has a trigger among these names
SchedNames == Names \ {"fatigue"}

SchedSymptomLists == UNION {[1..n -> {Lit(s) : s \in SchedNames}] : n \in 1..MaxSymptoms}

SchedAges == {17, 18}

\* the readings of the clock: mid-morning with seconds and microseconds,
\* late evening on the minute, and the last microsecond before 09:00
SchedNows ==
    {DateTime(1, 10, 30, 25, 500000), DateTime(1, 23, 50, 0, 0),
     DateTime(1, 8, 59, 59, 999999)}

InitSched ==
    /\ symptoms \in SchedSymptomLists
    /\ age \in SchedAges
    /\ diagnosis_result = None
    /\ BEDS = InitBEDS
    /\ bed_allocation = None
    /\ appointment = None
    /\ diag_log = << >>
    /\ bed_log = << >>
    /\ calls = 0
    /\ req = << >>
    /\ roster_data = None
    /\ metrics = None
    /\ current_time \in SchedNows
    /\ gender = None
    /\ db = None
    /\ entries = None

\* self.appointment = CSPScheduler.schedule_appointment(self.diagnosis_result, patient_name)
Schedule(patient_name) ==
    /\ diagnosis_result # None
    /\ appointment = None
    /\ appointment' = schedule_appointment(diagnosis_result, patient_name, current_time)
    /\ UNCHANGED <<symptoms, age, diagnosis_result, BEDS, bed_allocation, diag_log, bed_log,
                   calls, req, roster_data, metrics, current_time, gender, db, entries>>

NextSched ==
    \/ Diagnose
    \/ \E p \in Patients : Schedule(p)

SpecSched == InitSched /\ [][NextSched]_vars

----------------------------------------------------------------------------
(* Properties of the classifier *)

\* the call has returned
Diagnosed == diagnosis_result # None

\* the symptom list holds the name n, in whatever letter case
Contains(syms, n) == \E i \in 1..Len(syms) : syms[i].name = n

ContainsAny(syms, triggers) == \E n \in triggers : Contains(syms, n)

\* C4: every symptom list that contains "chest pain", at every age, is
\* classified Emergency with priority 10 and specialty Cardiology.
C4_ChestPainIsCardiacEmergency ==
    (Diagnosed /\ Contains(symptoms, "chest pain")) =>
        /\ diagnosis_result.urgency = "Emergency"
        /\ diagnosis_result.priority = 10
        /\ diagnosis_result.specialty = "Cardiology"

C4_Witness ==
    /\ Diagnosed
    /\ Contains(symptoms, "chest pain")
    /\ Contains(symptoms, "severe headache")
    /\ Contains(symptoms, "wheezing")
    /\ age = 17
    /\ diagnosis_result.priority = 10

\* C5: the respiratory-distress rule is evaluated with the emergency rules,
\* before the neurological, pediatric and symptom-combination rules: a list
\* with a respiratory-distress trigger (and no cardiac trigger) is classified
\* Emergency, Respiratory Medicine, whatever else it holds and at every age.
C5_RespiratoryDistressFirst ==
    (/\ Diagnosed
     /\ ContainsAny(symptoms, RespiratoryTriggers)
     /\ ~ContainsAny(symptoms, CardiacTriggers)) =>
        /\ diagnosis_result.urgency = "Emergency"
        /\ diagnosis_result.specialty = "Respiratory Medicine"

\* C6: at every age below 18, a symptom list with no Emergency trigger
\* (cardiac, respiratory distress) and no Neurology trigger is classified
\* Pediatrics.
C6_MinorsGoToPediatrics ==
    (/\ Diagnosed
     /\ age < 18
     /\ ~ContainsAny(symptoms, CardiacTriggers \cup RespiratoryTriggers)
     /\ ~ContainsAny(symptoms, NeuroTriggers)) =>
        diagnosis_result.specialty = "Pediatrics"

C6_Witness ==
    /\ Diagnosed
    /\ age = 17
    /\ Contains(symptoms, "fever")
    /\ Contains(symptoms, "cough")
    /\ ~ContainsAny(symptoms, CardiacTriggers \cup RespiratoryTriggers \cup NeuroTriggers)
    /\ diagnosis_result.specialty = "Pediatrics"

\* C8 as stated: the priority of every outcome lies in the band of its
\* urgency, Emergency 9..10, High 7..8, Medium 4..6, Low 0..3.
C8_PriorityInStatedBand ==
    Diagnosed =>
        /\ diagnosis_result.urgency = "Emergency" => diagnosis_result.priority \in 9..10
        /\ diagnosis_result.urgency = "High" => diagnosis_result.priority \in 7..8
        /\ diagnosis_result.urgency = "Medium" => diagnosis_result.priority \in 4..6
        /\ diagnosis_result.urgency = "Low" => diagnosis_result.priority \in 0..3

\* C8 amended: the priority of every outcome lies in the band of its
\* urgency, Emergency 9..10, High 7..8, Medium 5..6, Low 0..4.
C8_PriorityInBand ==
    Diagnosed =>
        /\ diagnosis_result.urgency \in {"Emergency", "High", "Medium", "Low"}
        /\ diagnosis_result.urgency = "Emergency" => diagnosis_result.priority \in 9..10
        /\ diagnosis_result.urgency = "High" => diagnosis_result.priority \in 7..8
        /\ diagnosis_result.urgency = "Medium" => diagnosis_result.priority \in 5..6
        /\ diagnosis_result.urgency = "Low" => diagnosis_result.priority \in 0..4

C8_Witness ==
    /\ Diagnosed
    /\ diagnosis_result.urgency = "Low"
    /\ diagnosis_result.priority = 4

\* the list with the letter case of its i-th symptom changed to f
Recase(syms, i, f) == [syms EXCEPT ![i] = Str(syms[i].name, f)]

\* the list with its i-th and j-th symptoms exchanged
Swap(syms, i, j) == [syms EXCEPT ![i] = syms[j], ![j] = syms[i]]

\* the list with its i-th symptom repeated at the end
Repeat(syms, i) == Append(syms, syms[i])

\* C10: changing the letter case of a symptom, exchanging two symptoms, or
\* repeating a symptom gives a list with the same classification.
C10_CaseOrderDuplicatesIrrelevant ==
    Diagnosed =>
        \A i \in 1..Len(symptoms) :
            /\ \A f \in Forms : diagnose(Recase(symptoms, i, f), age) = diagnosis_result
            /\ \A j \in 1..Len(symptoms) : diagnose(Swap(symptoms, i, j), age) = diagnosis_result
            /\ diagnose(Repeat(symptoms, i), age) = diagnosis_result

C10_Witness ==
    /\ Diagnosed
    /\ Len(symptoms) = 3
    /\ symptoms[1] = Str("fever", "Title")
    /\ symptoms[2] = Str("cough", "lower")
    /\ symptoms[3] = Str("fever", "lower")
    /\ age = 40
    /\ diagnosis_result = FeverCoughOutcome

----------------------------------------------------------------------------
(* Properties of the bed allocator *)

\* the beds of the pool
AllBeds(pool) == UNION {{pool[c][i] : i \in 1..Len(pool[c])} : c \in Categories}

BedIds(pool) == {b.id : b \in AllBeds(pool)}

\* the availability flag of the bed with this id
Available(pool, id) == \E b \in AllBeds(pool) : b.id = id /\ b.available

\* this step is a call of allocate_bed that returns a real bed
ReturnsRealBed ==
    /\ Len(bed_log') = Len(bed_log) + 1
    /\ bed_log'[Len(bed_log')] # WaitList.id

\* C1: in a sequence of allocate_bed calls no real bed id (any id but
\* WAIT-LIST) is returned by two different calls.
C1_NoBedReturnedTwice ==
    \A i, j \in 1..Len(bed_log) :
        (i < j /\ bed_log[i] = bed_log[j]) => bed_log[i] = WaitList.id

\* C2: when allocate_bed returns a real bed, the bed's available flag is true
\* before the call and false after it, the flag of every other bed is
\* unchanged and so is the set of bed ids of the pool.
C2_ReturnedBedBecomesUnavailable ==
    [][ReturnsRealBed =>
          LET id == bed_log'[Len(bed_log')] IN
          /\ Available(BEDS, id)
          /\ ~Available(BEDS', id)
          /\ \A other \in BedIds(BEDS) \ {id} : Available(BEDS', other) = Available(BEDS, other)
          /\ BedIds(BEDS') = BedIds(BEDS)]_vars

\* C3: two allocate_bed requests for the same bed category that are in
\* progress at the same time never hold the same real bed to return.
C3_ConcurrentRequestsGetDistinctBeds ==
    \A t1, t2 \in Threads :
        (/\ t1 # t2
         /\ req[t1].pc = "selected"
         /\ req[t2].pc = "selected"
         /\ req[t1].category = req[t2].category
         /\ req[t1].allocated_bed.id = req[t2].allocated_bed.id)
            => req[t1].allocated_bed.id = WaitList.id

----------------------------------------------------------------------------
(* Properties of the classifier within the system *)

Rank(urgency) ==
    CASE urgency = "Emergency" -> 4
      [] urgency = "High" -> 3
      [] urgency = "Medium" -> 2
      [] urgency = "Low" -> 1

\* C7: over the outcomes diagnose has returned, a more urgent outcome has a
\* strictly higher priority than a less urgent one.
C7_PriorityOrdersByUrgency ==
    \A i, j \in 1..Len(diag_log) :
        Rank(diag_log[i].result.urgency) > Rank(diag_log[j].result.urgency)
            => diag_log[i].result.priority > diag_log[j].result.priority

C7_Witness ==
    \E i, j \in 1..Len(diag_log) :
        /\ diag_log[i].result.urgency = "Medium"
        /\ diag_log[i].result.priority = 5
        /\ diag_log[j].result.urgency = "Low"
        /\ diag_log[j].result.priority = 4

----------------------------------------------------------------------------
(* Properties of the default rule *)

AllTriggers ==
    CardiacTriggers \cup NeuroTriggers \cup PediatricTriggers \cup RespiratoryTriggers
        \cup GastroTriggers \cup OrthoTriggers \cup DermaTriggers \cup PsychTriggers

\* no rule of the decision list matches the symptoms and the age
NoRuleMatches ==
    /\ age >= 18
    /\ ~ContainsAny(symptoms, AllTriggers)
    /\ ~(Contains(symptoms, "fever") /\ Contains(symptoms, "cough"))

Urgencies == {"Emergency", "High", "Medium", "Low"}

\* C11: when no rule matches, diagnose returns the default result (urgency
\* Low, disease General Checkup, the default physician); every non-empty
\* symptom list gets a result with an urgency, a priority and a specialty.
C11_DefaultWhenNoRuleMatches ==
    Diagnosed =>
        /\ NoRuleMatches =>
              /\ diagnosis_result.urgency = "Low"
              /\ diagnosis_result.disease = "General Checkup"
              /\ diagnosis_result.doctor = "Dr. Emily Davis"
        /\ diagnosis_result.urgency \in Urgencies
        /\ diagnosis_result.priority \in 0..10
        /\ DOMAIN diagnosis_result =
              {"urgency", "priority", "specialty", "disease", "doctor", "color"}

C11_Witness ==
    /\ Diagnosed
    /\ NoRuleMatches
    /\ Contains(symptoms, "fever")
    /\ Contains(symptoms, "fatigue")
    /\ age = 18
    /\ diagnosis_result.disease = "General Checkup"

----------------------------------------------------------------------------
(* Properties of the appointment *)

\* schedule_appointment has returned
Scheduled == appointment # None

\* the minutes from 00:00 of day 0 to the minute of dt
MinuteOfEra(dt) == (dt.day * 24 + dt.hour) * 60 + dt.minute

WellFormedTime(dt) ==
    dt.hour \in 0..23 /\ dt.minute \in 0..59 /\ dt.second \in 0..59
        /\ dt.microsecond \in 0..999999

\* t is exactly mins minutes after now
ExactlyAfter(t, now, mins) ==
    /\ WellFormedTime(t)
    /\ MinuteOfEra(t) - MinuteOfEra(now) = mins
    /\ t.second = now.second
    /\ t.microsecond = now.microsecond

\* fever and cough together, an adult, and no cardiac, respiratory-distress
\* or neurological trigger
FeverCoughAdult ==
    /\ Contains(symptoms, "fever")
    /\ Contains(symptoms, "cough")
    /\ age >= 18
    /\ ~ContainsAny(symptoms, CardiacTriggers \cup RespiratoryTriggers \cup NeuroTriggers)

RespiratoryInfectionPath ==
    /\ Diagnosed =>
          /\ diagnosis_result.urgency = "Medium"
          /\ diagnosis_result.priority = 5
          /\ diagnosis_result.specialty = "General Medicine"
          /\ diagnosis_result.disease = "Respiratory Infection"
    /\ Scheduled =>
          /\ appointment.duration = 30
          /\ ExactlyAfter(appointment.time, current_time, 180)

C13_LatencyBands ==
    Scheduled =>
        /\ appointment.urgency = diagnosis_result.urgency
        /\ diagnosis_result.urgency = "Emergency" =>
              ExactlyAfter(appointment.time, current_time, 15) /\ appointment.duration = 60
        /\ diagnosis_result.urgency = "High" =>
              ExactlyAfter(appointment.time, current_time, 60) /\ appointment.duration = 45
        /\ diagnosis_result.urgency = "Medium" =>
              ExactlyAfter(appointment.time, current_time, 180) /\ appointment.duration = 30

C13_Witness ==
    /\ Scheduled
    /\ diagnosis_result.urgency = "Emergency"
    /\ current_time = DateTime(1, 8, 59, 59, 999999)
    /\ appointment.time = DateTime(1, 9, 14, 59, 999999)
    /\ appointment.duration = 60

\* C14: a Low diagnosis is placed on the next calendar day at 09:00:00, with
\* no seconds or microseconds left over from now, and has duration 30.
C14_LowNextDayAtNine ==
    (Scheduled /\ diagnosis_result.urgency = "Low") =>
        /\ appointment.duration = 30
        /\ appointment.time = DateTime(current_time.day + 1, 9, 0, 0, 0)

\* C15: a specialty of the room table gets its room, every other specialty
\* gets the default outpatient room OPD-10.
C15_RoomOrDefault ==
    Scheduled =>
        /\ appointment.specialty = diagnosis_result.specialty
        /\ appointment.specialty = "Cardiology" => appointment.room = "CCU-201"
        /\ appointment.specialty = "Neurology" => appointment.room = "Neuro-305"
        /\ appointment.specialty = "Pediatrics" => appointment.room = "Pediatric-102"
        /\ appointment.specialty = "General Medicine" => appointment.room = "OPD-15"
        /\ appointment.specialty = "Orthopedics" => appointment.room = "Ortho-204"
        /\ appointment.specialty \notin {"Cardiology", "Neurology", "Pediatrics",
                                         "General Medicine", "Orthopedics"}
              => appointment.room = "OPD-10"

C15_Witness ==
    /\ Scheduled
    /\ appointment.specialty \in {"Respiratory Medicine", "Gastroenterology",
                                  "Dermatology", "Psychiatry"}
    /\ appointment.specialty = "Psychiatry"
    /\ appointment.room = "OPD-10"

----------------------------------------------------------------------------
(* The bed of one triage: diagnose applied to one input, then allocate_bed *)
(* applied to its result, for every setting of the availability flags that *)
(* allocate_bed reads from the pool.                                       *)

\* the pool with the availability flag of every bed set as flags says
WithFlags(flags) ==
    [c \in DOMAIN InitBEDS |->
        [i \in 1..Len(InitBEDS[c]) |->
            [InitBEDS[c][i] EXCEPT !.available = flags[InitBEDS[c][i].id]]]]

Pools == {WithFlags(flags) : flags \in [BedIds(InitBEDS) -> BOOLEAN]}

BedSymptomLists == SysSymptomLists \cup {<<Lit("child")>>}

BedAges == {17, 18, 50}

InitBeds ==
    /\ symptoms \in BedSymptomLists
    /\ age \in BedAges
    /\ diagnosis_result = None
    /\ BEDS \in Pools
    /\ bed_allocation = None
    /\ appointment = None
    /\ diag_log = << >>
    /\ bed_log = << >>
    /\ calls = 0
    /\ req = << >>
    /\ roster_data = None
    /\ metrics = None
    /\ current_time = None
    /\ gender \in Genders
    /\ db = None
    /\ entries = None

\* self.bed_allocation = CSPScheduler.allocate_bed(self.diagnosis_result, patient_name, age, gender)
Allocate(patient_name, now) ==
    /\ diagnosis_result # None
    /\ bed_allocation = None
    /\ bed_allocation' = allocate_bed(BEDS, diagnosis_result, patient_name, age, gender, now)
    /\ bed_log' = Append(bed_log, bed_allocation'.bed.id)
    /\ UNCHANGED <<symptoms, age, diagnosis_result, BEDS, appointment, diag_log, calls, req,
                   roster_data, metrics, current_time, gender, db, entries>>

NextBeds ==
    \/ Diagnose
    \/ \E p \in Patients, now \in NowSet : Allocate(p, now)

SpecBeds == InitBeds /\ [][NextBeds]_vars

----------------------------------------------------------------------------
(* Properties of the bed of one triage *)

\* allocate_bed has returned
Allocated == bed_allocation # None

\* b is the first bed of beds, in pool order, whose index is in eligible
IsFirstOf(b, beds, eligible) ==
    \E i \in eligible : b = beds[i] /\ \A j \in 1..(i - 1) : j \notin eligible

AvailableIn(beds) == {i \in 1..Len(beds) : beds[i].available}

\* the beds of the general ward the patient may get: available, and of the
\* patient's gender or of no gender
EligibleGeneral(beds, g) ==
    {i \in AvailableIn(beds) : "gender" \in DOMAIN beds[i] => beds[i].gender = g}

IdsOf(beds) == {beds[i].id : i \in 1..Len(beds)}

\* C16: for an Emergency diagnosis the bed is the first available bed of the
\* Emergency category, or the waitlist when that category has none, whatever
\* the age, the gender and the specialty; never a Pediatric or General bed.
C16_EmergencyGetsCriticalBed ==
    (Allocated /\ diagnosis_result.urgency = "Emergency") =>
        /\ \/ IsFirstOf(bed_allocation.bed, BEDS.Emergency, AvailableIn(BEDS.Emergency))
           \/ AvailableIn(BEDS.Emergency) = {} /\ bed_allocation.bed = WaitList
        /\ bed_allocation.bed.id \notin IdsOf(BEDS.Pediatric) \cup IdsOf(BEDS.High)

C16_Witness ==
    /\ Allocated
    /\ diagnosis_result.urgency = "Emergency"
    /\ age = 17
    /\ Available(BEDS, "PED-1")
    /\ ~Available(BEDS, "ICU-1")
    /\ bed_allocation.bed.id = "ICU-2"

\* the patient is not an Emergency, is an adult and is outside Pediatrics
GeneralWardPatient ==
    /\ diagnosis_result.urgency # "Emergency"
    /\ diagnosis_result.specialty # "Pediatrics"
    /\ age >= 18

\* C17: a non-Emergency adult outside Pediatrics gets the first available
\* General bed, in pool order, that has the patient's gender or no gender
\* (isolation), never a bed of another gender.
C17_GenderAppropriateBed ==
    (Allocated /\ GeneralWardPatient) =>
        /\ \/ IsFirstOf(bed_allocation.bed, BEDS.High, EligibleGeneral(BEDS.High, gender))
           \/ EligibleGeneral(BEDS.High, gender) = {} /\ bed_allocation.bed = WaitList
        /\ "gender" \in DOMAIN bed_allocation.bed => bed_allocation.bed.gender = gender

C17_Witness ==
    /\ Allocated
    /\ GeneralWardPatient
    /\ gender = "female"
    /\ Available(BEDS, "GW-201")
    /\ ~Available(BEDS, "GW-202")
    /\ bed_allocation.bed.id = "ISO-101"

\* the beds of the patient's category the patient may get
EligibleOwn ==
    IF diagnosis_result.urgency = "Emergency" THEN AvailableIn(BEDS.Emergency)
    ELSE IF diagnosis_result.specialty = "Pediatrics" \/ age < 18
    THEN AvailableIn(BEDS.Pediatric)
    ELSE EligibleGeneral(BEDS.High, gender)

\* C18: when the patient's category has no eligible available bed,
\* allocate_bed returns the waitlist assignment (id WAIT-LIST, ward Waiting
\* Queue) as a normal result, whatever beds the other categories have free.
C18_WaitlistWhenCategoryFull ==
    (Allocated /\ EligibleOwn = {}) =>
        /\ bed_allocation.bed.id = "WAIT-LIST"
        /\ bed_allocation.bed.ward = "Waiting Queue"
        /\ bed_allocation.estimated_stay \in {"3-5 days", "1-2 days"}

C18_Witness ==
    /\ Allocated
    /\ Contains(symptoms, "joint pain")
    /\ age = 50
    /\ AvailableIn(BEDS.High) = {}
    /\ Available(BEDS, "ICU-1")
    /\ Available(BEDS, "PED-1")
    /\ bed_allocation.bed.id = "WAIT-LIST"

----------------------------------------------------------------------------
(* The roster of one planning cycle: generate_optimized_roster applied to  *)
(* one sequence of random draws.                                           *)

CellCount == Len(DAYS) * Len(SHIFTS)

RECURSIVE CellSetsUpTo(_)
\* the sets of at most n cells
CellSetsUpTo(n) ==
    IF n = 0 THEN {{}}
    ELSE LET smaller == CellSetsUpTo(n - 1)
         IN smaller \cup {S \cup {k} : S \in smaller, k \in 1..CellCount}

\* the outcomes of the 21 calls of random.randint(5, 7): every sequence
\* that gives one count to all cells but at most MaxDeviations of them
RosterDraws ==
    UNION {{[k \in 1..CellCount |-> IF k \in S THEN other[k] ELSE base] : other \in [S -> 5..7]} :
              S \in CellSetsUpTo(MaxDeviations), base \in 5..7}

InitRoster ==
    /\ symptoms = << >>
    /\ age = 0
    /\ diagnosis_result = None
    /\ BEDS = InitBEDS
    /\ bed_allocation = None
    /\ appointment = None
    /\ diag_log = << >>
    /\ bed_log = << >>
    /\ calls = 0
    /\ req = << >>
    /\ roster_data = None
    /\ metrics = None
    /\ current_time = None
    /\ gender = None
    /\ db = None
    /\ entries = None

\* self.roster_data, self.metrics = GeneticAlgorithmRoster.generate_optimized_roster()
Generate(draws) ==
    /\ roster_data = None
    /\ roster_data' = generate_optimized_roster(draws).roster
    /\ metrics' = generate_optimized_roster(draws).metrics
    /\ UNCHANGED <<symptoms, age, diagnosis_result, BEDS, bed_allocation, appointment,
                   diag_log, bed_log, calls, req, current_time, gender, db, entries>>

NextRoster == \E draws \in RosterDraws : Generate(draws)

SpecRoster == InitRoster /\ [][NextRoster]_vars

----------------------------------------------------------------------------
(* Properties of the roster *)

Generated == roster_data # None

\* the cells of the roster: day and shift positions, from 1
CellsOf(roster) == {<<d, s>> : d \in 1..Len(roster), s \in 1..3}

\* the number of cells of the roster given to the doctor
CellsGivenTo(roster, name) ==
    Cardinality({c \in CellsOf(roster) : roster[c[1]][c[2]].doctor = name})

\* C19: the roster has exactly 21 entries, the 3 shifts of each of the 7
\* days in day-then-shift order, and the doctor of the cell of day index d
\* and shift index s (from 0) is the catalog entry at index (d*3 + s) mod 10.
C19_RosterShape ==
    Generated =>
        /\ Len(roster_data) = 7
        /\ \A d \in 1..Len(roster_data) : Len(roster_data[d]) = 3
        /\ Cardinality(CellsOf(roster_data)) = 21
        /\ \A d \in 0..6, s \in 0..2 :
              /\ roster_data[d + 1][s + 1].day = DAYS[d + 1]
              /\ roster_data[d + 1][s + 1].shift = SHIFTS[s + 1]
              /\ roster_data[d + 1][s + 1].doctor = DOCTORS[((d * 3 + s) % 10) + 1].name

C19_Witness ==
    /\ Generated
    /\ roster_data[4][2].doctor = "Dr. Sarah Johnson"
    /\ roster_data[7][3].day = "Sunday"
    /\ roster_data[7][3].shift = "Night (8PM-2AM)"
    /\ roster_data[7][3].doctor = "Dr. Sarah Johnson"
    /\ roster_data[7][3].patients = 7
    /\ roster_data[1][1].patients = 5

\* C20: each of the 10 doctors of the catalog has exactly 2 or exactly 3 of
\* the 21 cells, whatever the patient counts drawn.
C20_TwoOrThreeCellsEach ==
    Generated =>
        \A i \in 1..Len(DOCTORS) : CellsGivenTo(roster_data, DOCTORS[i].name) \in {2, 3}

C20_Witness ==
    /\ Generated
    /\ CellsGivenTo(roster_data, "Dr. Sarah Johnson") = 3
    /\ CellsGivenTo(roster_data, "Dr. Steven Wright") = 2
    /\ roster_data[1][1].patients = 6
    /\ roster_data[1][2].patients = 7
    /\ roster_data[1][3].patients = 6

\* the doctor of the catalog with the name
DoctorNamed(name) == CHOOSE i \in 1..Len(DOCTORS) : DOCTORS[i].name = name

\* C21: in every cell the patient count is in 5..7, the cost is patients *
\* cost_per_hour / 2 for the doctor of the cell, and the revenue is
\* patients * 80 (amounts in halves).
C21_CellArithmetic ==
    Generated =>
        \A c \in CellsOf(roster_data) :
            LET cell == roster_data[c[1]][c[2]]
            IN /\ cell.patients \in 5..7
               /\ cell.cost = cell.patients * DOCTORS[DoctorNamed(cell.doctor)].cost_per_hour
               /\ cell.revenue = 2 * (cell.patients * 80)

C21_Witness ==
    /\ Generated
    /\ roster_data[2][3].doctor = "Dr. James Wilson"
    /\ roster_data[2][3].patients = 7
    /\ roster_data[2][3].cost = 7 * 145
    /\ roster_data[1][1].patients = 5

RECURSIVE TotalOver(_, _, _)
\* the sum of the field over the cells
TotalOver(roster, cells, field) ==
    IF cells = {} THEN 0
    ELSE LET c == CHOOSE x \in cells : TRUE
         IN roster[c[1]][c[2]][field] + TotalOver(roster, cells \ {c}, field)

\* the amount a two-decimal rendering shows, in hundredths
Shown(rendered) == rendered.units * 100 + rendered.hundredths

\* C22: the reported profit is total revenue minus total cost exactly, the
\* totals being the sums over the 21 cells, also as rendered with two
\* decimals.
C22_ProfitIsRevenueMinusCost ==
    Generated =>
        /\ Shown(metrics.total_cost) = 50 * TotalOver(roster_data, CellsOf(roster_data), "cost")
        /\ Shown(metrics.total_revenue) =
              50 * TotalOver(roster_data, CellsOf(roster_data), "revenue")
        /\ Shown(metrics.profit) = Shown(metrics.total_revenue) - Shown(metrics.total_cost)

C22_Witness ==
    /\ Generated
    /\ metrics.total_cost.hundredths = 50
    /\ metrics.profit.hundredths = 50
    /\ metrics.total_revenue.hundredths = 0

----------------------------------------------------------------------------
(* Frame of the operations that do not allocate beds *)

\* the availability flag of every bed of the pool
FlagsOf(pool) == [id \in BedIds(pool) |-> Available(pool, id)]

\* C24: a call of diagnose, schedule_appointment or
\* generate_optimized_roster (any call that is not allocate_bed) leaves every
\* bed of the pool with the availability flag it had before.
C24_OnlyAllocationTouchesPool ==
    [][(calls' = calls + 1 /\ Len(bed_log') = Len(bed_log))
           => (BEDS' = BEDS /\ FlagsOf(BEDS') = FlagsOf(BEDS))]_vars

C24_Witness ==
    /\ Len(diag_log) = 1
    /\ appointment # None
    /\ roster_data # None
    /\ bed_log = << >>
    /\ calls = 3
    /\ FlagsOf(BEDS) = FlagsOf(InitBEDS)
    /\ Available(BEDS, "ICU-1")
    /\ ~Available(BEDS, "ICU-3")

----------------------------------------------------------------------------
(* Order of the appointments of one clock reading *)

\* the ten results diagnose can return
Outcomes ==
    {CardiacOutcome, NeuroOutcome, PediatricOutcome, FeverCoughOutcome, RespiratoryOutcome,
     GastroOutcome, OrthoOutcome, DermaOutcome, PsychOutcome, DefaultOutcome}

\* t1 is strictly before t2
Earlier(t1, t2) ==
    \/ MinuteOfEra(t1) < MinuteOfEra(t2)
    \/ /\ MinuteOfEra(t1) = MinuteOfEra(t2)
       /\ \/ t1.second < t2.second
          \/ t1.second = t2.second /\ t1.microsecond < t2.microsecond

\* C29: at one reading of the clock, the appointment of a more urgent
\* diagnosis is strictly earlier than the appointment of a less urgent one
\* (Emergency before High before Medium before Low), also late in the
\* evening when now + 3 hours falls on the next day.
C29_UrgentNeverLater ==
    Scheduled =>
        \A other \in Outcomes :
            LET t == schedule_appointment(other, "Ali", current_time).time
            IN /\ Rank(diagnosis_result.urgency) > Rank(other.urgency)
                     => Earlier(appointment.time, t)
               /\ Rank(diagnosis_result.urgency) < Rank(other.urgency)
                     => Earlier(t, appointment.time)

C29_Witness ==
    /\ Scheduled
    /\ diagnosis_result.urgency = "Medium"
    /\ current_time = DateTime(1, 23, 50, 0, 0)
    /\ appointment.time = DateTime(2, 2, 50, 0, 0)
    /\ schedule_appointment(DefaultOutcome, "Ali", current_time).time = DateTime(2, 9, 0, 0, 0)

----------------------------------------------------------------------------
(* The doctor of a diagnosis and the catalog *)

\* C30: the doctor of every result of diagnose is a doctor of the catalog
\* whose catalog specialty is the specialty of the result.
C30_DoctorOfTheSpecialty ==
    Diagnosed =>
        \E i \in 1..Len(DOCTORS) :
            /\ DOCTORS[i].name = diagnosis_result.doctor
            /\ DOCTORS[i].specialty = diagnosis_result.specialty

----------------------------------------------------------------------------
(* HospitalDatabase (src/database.py): the tables the handlers write.  The *)
(* id of a row of an AUTOINCREMENT table that is never deleted from is its *)
(* position in the table.  Every call commits before it returns.          *)

\* the tables after create_tables on a new file
EmptyStore ==
    [patients |-> << >>, symptoms |-> << >>, diagnosis |-> << >>, appointments |-> << >>,
     bed_allocations |-> << >>, weekly_roster |-> << >>]

\* dt.strftime('%Y-%m-%d %H:%M:%S'): the text has no microseconds
strftime_seconds(dt) ==
    [day |-> dt.day, hour |-> dt.hour, minute |-> dt.minute, second |-> dt.second]

\* dt.strftime('%Y-%m-%d')
strftime_date(dt) == [day |-> dt.day]

\* datetime.strptime(text, '%Y-%m-%d %H:%M')
strptime_minutes(text) == DateTime(text.day, text.hour, text.minute, 0, 0)

\* INSERT INTO patients (name, age, gender, contact, address)
add_patient(store, name, a, g) ==
    [store EXCEPT !.patients = Append(@, [name |-> name, age |-> a, gender |-> g])]

\* one INSERT INTO symptoms (patient_id, symptom_name) for each symptom
add_symptoms(store, patient_id, syms) ==
    [store EXCEPT !.symptoms =
        @ \o [i \in 1..Len(syms) |-> [patient_id |-> patient_id, symptom_name |-> syms[i]]]]

\* INSERT INTO diagnosis (patient_id, urgency, priority, specialty, disease, assigned_doctor)
add_diagnosis(store, patient_id, urgency, priority, specialty, disease, assigned_doctor) ==
    [store EXCEPT !.diagnosis =
        Append(@, [patient_id |-> patient_id, urgency |-> urgency, priority |-> priority,
                   specialty |-> specialty, disease |-> disease,
                   assigned_doctor |-> assigned_doctor])]

\* INSERT INTO appointments (...); the column status defaults to 'Scheduled'
add_appointment(store, patient_id, diagnosis_id, doctor_name, specialty, time, room, duration) ==
    [store EXCEPT !.appointments =
        Append(@, [patient_id |-> patient_id, diagnosis_id |-> diagnosis_id,
                   doctor_name |-> doctor_name, specialty |-> specialty,
                   appointment_time |-> strftime_seconds(time),
                   room |-> room, duration |-> duration, status |-> "Scheduled"])]

\* UPDATE appointments SET status = ? WHERE appointment_id = ?
update_appointment_status(store, appointment_id, status) ==
    [store EXCEPT !.appointments =
        [i \in 1..Len(@) |-> IF i = appointment_id THEN [@[i] EXCEPT !.status = status]
                             ELSE @[i]]]

\* an update with no WHERE clause
reschedule_appointment_all_rows(store, appointment_id, new_datetime) ==
    [store EXCEPT !.appointments =
        [i \in 1..Len(@) |-> [@[i] EXCEPT !.appointment_time = strftime_seconds(new_datetime)]]]

\* UPDATE appointments SET appointment_time = ? WHERE appointment_id = ?
reschedule_appointment(store, appointment_id, new_datetime) ==
    [store EXCEPT !.appointments =
        [i \in 1..Len(@) |->
            IF i = appointment_id
            THEN [@[i] EXCEPT !.appointment_time = strftime_seconds(new_datetime)]
            ELSE @[i]]]

\* INSERT INTO bed_allocations (...); the column status defaults to 'Occupied'
add_bed_allocation(store, patient_id, bed_id, ward, bed_type, estimated_stay) ==
    [store EXCEPT !.bed_allocations =
        Append(@, [patient_id |-> patient_id, bed_id |-> bed_id, ward |-> ward,
                   bed_type |-> bed_type, estimated_stay |-> estimated_stay,
                   status |-> "Occupied", discharge_date |-> None])]

\* UPDATE bed_allocations SET status = 'Discharged', discharge_date = ?
\* WHERE allocation_id = ?
discharge_patient(store, allocation_id, now) ==
    [store EXCEPT !.bed_allocations =
        [i \in 1..Len(@) |->
            IF i = allocation_id
            THEN [@[i] EXCEPT !.status = "Discharged",
                              !.discharge_date = strftime_seconds(now)]
            ELSE @[i]]]

\* the rows of the roster, day by day and shift by shift
roster_rows(roster, week_start_date) ==
    [k \in 1..(Len(roster) * Len(SHIFTS)) |->
        LET shift == roster[((k - 1) \div Len(SHIFTS)) + 1][((k - 1) % Len(SHIFTS)) + 1]
        IN [week_start_date |-> week_start_date, day |-> shift.day, shift |-> shift.shift,
            doctor_name |-> shift.doctor, specialty |-> shift.specialty,
            patients_count |-> shift.patients, cost |-> shift.cost,
            revenue |-> shift.revenue]]

\* a save that inserts the rows and deletes nothing
save_weekly_roster_appending(store, roster, week_start_date, failed) ==
    IF failed THEN store
    ELSE [store EXCEPT !.weekly_roster = @ \o roster_rows(roster, week_start_date)]

\* DELETE FROM weekly_roster WHERE week_start_date = ?, then one INSERT for
\* each shift of each day, then commit; failed: an sqlite3.Error is raised
\* before the commit and the handler rolls the transaction back
save_weekly_roster(store, roster, week_start_date, failed) ==
    IF failed THEN store
    ELSE [store EXCEPT !.weekly_roster =
             SelectSeq(@, LAMBDA row : row.week_start_date # week_start_date)
                 \o roster_rows(roster, week_start_date)]

\* SELECT COUNT(*) FROM ... of get_statistics
get_statistics(store) ==
    [total_patients |-> Len(store.patients),
     total_appointments |-> Len(store.appointments),
     scheduled_appointments |->
        Cardinality({i \in 1..Len(store.appointments) :
                        store.appointments[i].status = "Scheduled"}),
     occupied_beds |->
        Cardinality({i \in 1..Len(store.bed_allocations) :
                        store.bed_allocations[i].status = "Occupied"})]

----------------------------------------------------------------------------
(* HospitalManagementGUI.run_diagnosis and the appointment handlers, with  *)
(* the record store connected (self.db is a HospitalDatabase).             *)

\* the text of an entry field: its characters, whether str.isdigit() holds
\* of it, and the number int() reads from it
Text(chars, digits, number) == [text |-> chars, isdigit |-> digits, value |-> number]

\* the form: the name and age entries, the ticked symptoms, the gender
Form(name, age_entry, syms, g) ==
    [name |-> name, age |-> age_entry, symptoms |-> syms, gender |-> g]

\* a validation that leaves out the isdigit test of the age
passes_validation_no_digit_test(f) ==
    /\ f.name # ""
    /\ f.age.text # ""
    /\ f.symptoms # << >>

\* the four tests run_diagnosis makes before it does anything else
passes_validation(f) ==
    /\ f.name # ""
    /\ f.age.text # ""
    /\ f.age.isdigit
    /\ f.symptoms # << >>

\* the whole handler for the form f, when datetime.now() gives now, the
\* random draws of the roster are draws and the roster save fails or not
RunDiagnosis(f, now, draws, save_fails) ==
    /\ db # None
    /\ calls' = calls + 1
    /\ symptoms' = f.symptoms
    /\ entries' = [name |-> f.name, age |-> f.age, call |-> calls + 1,
                   saved |-> IF ~passes_validation(f) THEN "not called"
                             ELSE IF save_fails THEN "False" ELSE "True"]
    /\ IF ~passes_validation(f)
       THEN UNCHANGED <<age, gender, diagnosis_result, diag_log, appointment, current_time,
                        bed_allocation, bed_log, roster_data, metrics, db>>
       ELSE LET a == f.age.value
                patient_id == Len(db.patients) + 1
                diagnosis_id == Len(db.diagnosis) + 1
                d == diagnose(f.symptoms, a)
                appt == schedule_appointment(d, f.name, now)
                alloc == allocate_bed(BEDS, d, f.name, a, f.gender, now)
                generated == generate_optimized_roster(draws)
                db1 == add_symptoms(add_patient(db, f.name, a, f.gender), patient_id,
                                    f.symptoms)
                db2 == add_diagnosis(db1, patient_id, d.urgency, d.priority, d.specialty,
                                     d.disease, d.doctor)
                db3 == add_appointment(db2, patient_id, diagnosis_id, appt.doctor,
                                       appt.specialty, appt.time, appt.room, appt.duration)
                db4 == add_bed_allocation(db3, patient_id, alloc.bed.id, alloc.bed.ward,
                                          IF "type" \in DOMAIN alloc.bed THEN alloc.bed.type
                                          ELSE "Standard",
                                          alloc.estimated_stay)
            IN /\ age' = a
               /\ gender' = f.gender
               /\ diagnosis_result' = d
               /\ diag_log' = Append(diag_log, [call |-> calls + 1, symptoms |-> f.symptoms,
                                                age |-> a, result |-> d])
               /\ appointment' = appt
               /\ current_time' = now
               /\ bed_allocation' = alloc
               /\ bed_log' = Append(bed_log, alloc.bed.id)
               /\ roster_data' = generated.roster
               /\ metrics' = generated.metrics
               /\ db' = save_weekly_roster(db4, generated.roster, strftime_date(now),
                                           save_fails)
    /\ UNCHANGED <<BEDS, req>>

\* HospitalManagementGUI.reschedule_appointment for the selected row and the
\* text typed into the dialog (None: the dialog was dismissed)
RescheduleAppointment(appt_id, new_time_str) ==
    /\ db # None
    /\ appt_id \in 1..Len(db.appointments)
    /\ calls' = calls + 1
    /\ db' = IF new_time_str # None /\ new_time_str.valid
             THEN update_appointment_status(
                      reschedule_appointment(db, appt_id, strptime_minutes(new_time_str)),
                      appt_id, "Rescheduled")
             ELSE db
    /\ UNCHANGED <<symptoms, age, diagnosis_result, BEDS, bed_allocation, appointment,
                   diag_log, bed_log, req, roster_data, metrics, current_time, gender,
                   entries>>

\* HospitalManagementGUI.cancel_appointment for the selected row and the
\* answer to the confirmation question
CancelAppointment(appt_id, confirmed) ==
    /\ db # None
    /\ appt_id \in 1..Len(db.appointments)
    /\ calls' = calls + 1
    /\ db' = IF confirmed THEN update_appointment_status(db, appt_id, "Cancelled") ELSE db
    /\ UNCHANGED <<symptoms, age, diagnosis_result, BEDS, bed_allocation, appointment,
                   diag_log, bed_log, req, roster_data, metrics, current_time, gender,
                   entries>>

\* HospitalDatabase.discharge_patient(allocation_id)
DischargePatient(allocation_id, now) ==
    /\ db # None
    /\ allocation_id \in 1..Len(db.bed_allocations)
    /\ db' = discharge_patient(db, allocation_id, now)
    /\ UNCHANGED <<symptoms, age, diagnosis_result, BEDS, bed_allocation, appointment,
                   diag_log, bed_log, calls, req, roster_data, metrics, current_time, gender,
                   entries>>

\* the application after start-up: the record store is connected and empty
InitApp ==
    /\ symptoms = << >>
    /\ age = 0
    /\ diagnosis_result = None
    /\ BEDS = InitBEDS
    /\ bed_allocation = None
    /\ appointment = None
    /\ diag_log = << >>
    /\ bed_log = << >>
    /\ calls = 0
    /\ req = << >>
    /\ roster_data = None
    /\ metrics = None
    /\ current_time = None
    /\ gender = None
    /\ db = EmptyStore
    /\ entries = None

----------------------------------------------------------------------------
(* Triage runs and appointment changes *)

ChestPain == <<Str("chest pain", "Title")>>

JointPain == <<Str("joint pain", "Title")>>

\* forms the validation turns down: no name, no age, letters for the age,
\* a negative age, no symptom ticked
RejectedForms ==
    {Form("", Text("30", TRUE, 30), ChestPain, "male"),
     Form("Ali", Text("", FALSE, 0), ChestPain, "male"),
     Form("Ali", Text("abc", FALSE, 0), ChestPain, "male"),
     Form("Ali", Text("-5", FALSE, -5), JointPain, "male"),
     Form("Ali", Text("30", TRUE, 30), << >>, "male")}

AcceptedForms ==
    {Form("Ali", Text("30", TRUE, 30), ChestPain, "male"),
     Form("Sara", Text("45", TRUE, 45), JointPain, "female")}

AppForms == RejectedForms \cup AcceptedForms

\* the texts typed into the reschedule dialog: two well-formed ones and one
\* that strptime turns down
RescheduleTexts ==
    {[valid |-> TRUE, day |-> 3, hour |-> 14, minute |-> 0],
     [valid |-> TRUE, day |-> 1, hour |-> 8, minute |-> 30],
     [valid |-> FALSE, day |-> 0, hour |-> 0, minute |-> 0]}

\* the draws of a roster with six patients in every cell
EvenDraws == [k \in 1..21 |-> 6]

NextApp ==
    \/ \E f \in AppForms, now \in NowSet :
          calls < MaxCalls /\ RunDiagnosis(f, now, EvenDraws, FALSE)
    \/ \E i \in 1..MaxCalls, text \in RescheduleTexts \cup {None} :
          calls < MaxCalls /\ RescheduleAppointment(i, text)
    \/ \E i \in 1..MaxCalls, confirmed \in BOOLEAN :
          calls < MaxCalls /\ CancelAppointment(i, confirmed)

SpecApp == InitApp /\ [][NextApp]_vars

----------------------------------------------------------------------------
(* Triage runs that save rosters of two weeks, with saves that fail *)

\* readings of the clock on two dates
StoreNows == {DateTime(1, 10, 30, 25, 500000), DateTime(8, 9, 0, 0, 0)}

StoreDraws == {[k \in 1..21 |-> 5], [k \in 1..21 |-> 7], [k \in 1..21 |-> 5 + (k % 3)]}

NextStore ==
    \E f \in {Form("Ali", Text("30", TRUE, 30), ChestPain, "male")}, now \in StoreNows,
       draws \in StoreDraws, save_fails \in BOOLEAN :
        calls < MaxCalls /\ RunDiagnosis(f, now, draws, save_fails)

SpecStore == InitApp /\ [][NextStore]_vars

----------------------------------------------------------------------------
(* The ward: triage runs and discharges *)

\* the patients of the ward all come with the same complaint
WardForms == {Form("Sara", Text("45", TRUE, 45), JointPain, "female")}

\* the reading of the clock of every step of the ward
WardNow == DateTime(1, 10, 30, 25, 500000)

NextWard ==
    \/ \E f \in WardForms :
          Len(db.patients) < MaxTriage /\ RunDiagnosis(f, WardNow, EvenDraws, FALSE)
    \/ \E i \in 1..MaxTriage : DischargePatient(i, WardNow)

SpecWard == InitApp /\ [][NextWard]_vars

----------------------------------------------------------------------------
(* Properties of the triage handler and the appointment records *)

\* this step is a run of run_diagnosis
RunStep == entries' # None /\ entries'.call = calls'

\* the form of this run has no symptom ticked, or an age that is missing,
\* not a number or negative
FormToReject ==
    \/ symptoms' = << >>
    \/ entries'.age.text = ""
    \/ ~entries'.age.isdigit
    \/ entries'.age.value < 0

\* C23: a run of run_diagnosis with no symptom selected, or with a missing,
\* non-numeric or negative age, calls none of diagnose, schedule_appointment
\* and allocate_bed, writes nothing to the record store and leaves the bed
\* pool as it was.
C23_InvalidFormIsRejected ==
    [][(RunStep /\ FormToReject)
          => UNCHANGED <<diag_log, diagnosis_result, appointment, bed_allocation, bed_log,
                         db, BEDS>>]_vars

C23_Witness ==
    /\ entries # None
    /\ entries.call = 2
    /\ calls = 2
    /\ entries.age.text = "-5"
    /\ symptoms = JointPain
    /\ Len(diag_log) = 1
    /\ Len(db.patients) = 1
    /\ Len(db.symptoms) = 1
    /\ diagnosis_result.specialty = "Cardiology"

\* the columns of an appointment that a reschedule or a cancel may not touch
FixedColumns(row) ==
    <<row.patient_id, row.diagnosis_id, row.doctor_name, row.specialty, row.room,
      row.duration>>

\* this step is a run of run_diagnosis that was not turned down
SuccessfulRun == RunStep /\ Len(diag_log') = Len(diag_log) + 1

\* this step is a reschedule or a cancel
AppointmentChange == calls' = calls + 1 /\ ~RunStep

\* C26: a successful triage run adds exactly one appointment record, with
\* status Scheduled, and keeps the records there were; a reschedule or a
\* cancel changes at most the time and the status of the selected
\* appointment and nothing of any other appointment.
C26_OneAppointmentPerRun ==
    [][/\ SuccessfulRun =>
            /\ Len(db'.appointments) = Len(db.appointments) + 1
            /\ db'.appointments[Len(db'.appointments)].status = "Scheduled"
            /\ db'.appointments[Len(db'.appointments)].patient_id = Len(db'.patients)
            /\ \A i \in 1..Len(db.appointments) : db'.appointments[i] = db.appointments[i]
       /\ AppointmentChange =>
            /\ Len(db'.appointments) = Len(db.appointments)
            /\ \E selected \in 1..Len(db.appointments) :
                  /\ FixedColumns(db'.appointments[selected])
                        = FixedColumns(db.appointments[selected])
                  /\ \A i \in 1..Len(db.appointments) :
                        i # selected => db'.appointments[i] = db.appointments[i]]_vars

C26_Witness ==
    /\ Len(db.appointments) = 2
    /\ db.appointments[1].status = "Rescheduled"
    /\ db.appointments[1].appointment_time = [day |-> 3, hour |-> 14, minute |-> 0, second |-> 0]
    /\ db.appointments[1].room = "CCU-201"
    /\ db.appointments[2].status = "Scheduled"
    /\ db.appointments[2].appointment_time = [day |-> 1, hour |-> 13, minute |-> 30, second |-> 25]

\* C27: an appointment whose status is Cancelled keeps its status and its
\* time through every later reschedule and cancel.
C27_CancelledIsTerminal ==
    [][\A i \in 1..Len(db.appointments) :
          db.appointments[i].status = "Cancelled"
              => /\ db'.appointments[i].status = "Cancelled"
                 /\ db'.appointments[i].appointment_time
                       = db.appointments[i].appointment_time]_vars

----------------------------------------------------------------------------
(* Properties of the persisted roster *)

\* the rows of the week, in the order of the table
RowsOfWeek(store, week) ==
    SelectSeq(store.weekly_roster, LAMBDA row : row.week_start_date = week)

\* the weeks that have rows
WeeksOf(store) == {store.weekly_roster[i].week_start_date : i \in 1..Len(store.weekly_roster)}

\* every week of the table has 21 rows, one for each day and shift
OneRowPerCell ==
    \A week \in WeeksOf(db) :
        /\ Len(RowsOfWeek(db, week)) = 21
        /\ \A d \in 1..Len(DAYS), s \in 1..Len(SHIFTS) :
              Cardinality({i \in 1..21 : /\ RowsOfWeek(db, week)[i].day = DAYS[d]
                                        /\ RowsOfWeek(db, week)[i].shift = SHIFTS[s]}) = 1

\* the week of this run has the rows of the roster of this run, and the
\* other weeks have the rows they had
WeekReplaced ==
    /\ RowsOfWeek(db', strftime_date(current_time'))
          = roster_rows(roster_data', strftime_date(current_time'))
    /\ \A week \in WeeksOf(db) \ {strftime_date(current_time')} :
          RowsOfWeek(db', week) = RowsOfWeek(db, week)

\* C25: a successful save leaves, for its week, exactly the 21 rows of the
\* roster just saved, one for each day and shift, and leaves the rows of the
\* other weeks as they were; a save that fails leaves every row as it was.
C25_RosterReplacedWholesale ==
    /\ []OneRowPerCell
    /\ [][((RunStep /\ entries'.saved = "True") => WeekReplaced)
            /\ ((RunStep /\ entries'.saved = "False")
                    => db'.weekly_roster = db.weekly_roster)]_vars

C25_Witness ==
    /\ calls = 3
    /\ entries.saved = "False"
    /\ WeeksOf(db) = {[day |-> 1], [day |-> 8]}
    /\ RowsOfWeek(db, [day |-> 1])[1].patients_count = 7
    /\ RowsOfWeek(db, [day |-> 8])[1].patients_count = 5
    /\ current_time.day = 1
    /\ roster_data[1][1].patients = 6

----------------------------------------------------------------------------
(* Properties of the occupied-beds statistic *)

\* C28: the occupied-beds statistic never exceeds the 8 beds of the pool,
\* and no record of the waitlist is counted as an occupied bed.
C28_OccupiedWithinPool ==
    /\ get_statistics(db).occupied_beds <= Cardinality(BedIds(InitBEDS))
    /\ get_statistics(db).occupied_beds <= 8
    /\ \A i \in 1..Len(db.bed_allocations) :
          db.bed_allocations[i].bed_id = "WAIT-LIST"
              => db.bed_allocations[i].status # "Occupied"

====
